---- MODULE Spec2Model ----
(***************************************************************************)
(* A model of New_Alarm_Cond.c: the alarm list (a singly linked list kept  *)
(* in malloc'ed nodes), the thread list, the reader/writer admission       *)
(* protocol built from the counters ready, read_count, writing and the     *)
(* semaphore rw_sem, the main thread (the Submitter), alarm_thread (the    *)
(* Dispatcher) and the periodic display threads (the Display Workers).     *)
(***************************************************************************)
EXTENDS Integers, Sequences, FiniteSets, TLC

\* ------------------------------------------------------------ bounds
MaxNodes   == 5   \* heap cells available to malloc
MaxType    == 2   \* message types 1..MaxType
MaxNum     == 2   \* message numbers 1..MaxNum
MaxSubmits == 3   \* commands the main thread reads
MaxWorkers == 2   \* display threads alive at the same time
NSubmit    == 3   \* concurrent submitters of the N-submitter scenario
TornSubmits == 2  \* commands the main thread reads in the cancel scenario
CancelSubmits == 3  \* commands the main thread reads in the two-cancel scenario
PairSubmits == 1     \* commands the main thread reads in the two-thread scenario
ScriptLen  == 3      \* commands of the script scenario
DisplayCap == 2      \* display events counted per request number
CountCap   == 2   \* read_count is followed between -CountCap and CountCap
Seconds == 1      \* the seconds every Type A request asks for
ReplaceSubmits == 1  \* commands the main thread reads in the replacement scenario

\* ------------------------------------------------- program constants
TYPE_A == 1
TYPE_B == 2
TYPE_C == 3
NULL   == 0

Nodes   == 1..MaxNodes
Types   == 1..MaxType
Numbers == 1..MaxNum
Subs    == 1..NSubmit
Workers == 1..MaxWorkers

VARIABLES
    heap,         \* the alarm_t cells: contents survive free() until reuse
    live,         \* the cells malloc'ed and not yet freed
    alarm_list,   \* head of the alarm list
    thread_list,  \* the thread list, a sequence of [type, tid]
    rw_sem, read_count, writing, ready, insert_flag,
    mpc, malarm, mkind, mexists, mnone, mdup, mtmp, mlast, mnext, mmode, mresult, nsub,
    dpc, dnext, dval, dtmp,
    wpc, walarm, wflag, wtype, warg, wtmp, wcancel, wcstate,
    shown,        \* display events so far, per request number
    crashed

mainVars == <<mpc, malarm, mkind, mexists, mnone, mdup, mtmp, mlast, mnext, mmode,
             mresult, nsub>>
dispVars == <<dpc, dnext, dval, dtmp>>
workVars == <<wpc, walarm, wflag, wtype, warg, wtmp, wcancel, wcstate, shown>>
memVars  == <<heap, live, alarm_list>>
syncVars == <<rw_sem, read_count, writing, ready>>
vars == <<heap, live, alarm_list, thread_list, rw_sem, read_count, writing,
          ready, insert_flag, mainVars, dispVars, workVars, crashed>>

\* ------------------------------------------------------ the alarm list
alarm_t == [link |-> NULL, time |-> 0, number |-> 0, type |-> 0,
            prev_type |-> 0, is_new |-> 0, request_type |-> 0, expo |-> 0]

MinOf(S) == CHOOSE x \in S : \A y \in S : x <= y

\* The cells malloc can hand out: any freed cell, which keeps what it last
\* held, or the first cell never handed out yet.
malloc ==
    LET free == Nodes \ live
        fresh == {n \in free : heap[n] = alarm_t}
    IN  (free \ fresh) \cup (IF fresh = {} THEN {} ELSE {MinOf(fresh)})

RECURSIVE Walk(_, _, _)
Walk(h, n, fuel) ==
    IF n = NULL \/ fuel = 0 THEN <<>>
    ELSE <<n>> \o Walk(h, h[n].link, fuel - 1)

\* The nodes of the alarm list from head to tail.
ListOf(h, head) == Walk(h, head, MaxNodes)
List == ListOf(heap, alarm_list)

\* The nodes linked in the list.
Linked == {List[i] : i \in 1..Len(List)}

Matches(h, head, P(_)) == {i \in 1..Len(ListOf(h, head)) : P(h[ListOf(h, head)[i]])}

\* The write "*last = x", last being &alarm_list (NULL here) or &node->link.
StoreLast(h, head, last, x) ==
    IF last = NULL THEN [h |-> h, head |-> x]
    ELSE [h |-> [h EXCEPT ![last].link = x], head |-> head]

\* Unlink the first node that satisfies P and free it.
RemoveFirst(h, head, lv, P(_)) ==
    LET l == ListOf(h, head)
        m == Matches(h, head, P)
    IN  IF m = {} THEN [h |-> h, head |-> head, live |-> lv, node |-> NULL]
        ELSE LET i == MinOf(m)
                 last == IF i = 1 THEN NULL ELSE l[i - 1]
                 s == StoreLast(h, head, last, h[l[i]].link)
             IN  [h |-> s.h, head |-> s.head, live |-> lv \ {l[i]}, node |-> l[i]]

\* The tests the four searches of the list apply to an entry.
IsTypeA(a, type) == a.type = type /\ a.request_type = TYPE_A

\* A test that takes a request of any kind for a Type A.
IsNumberA_any_kind(a, num) == a.number = num

IsNumberA(a, num) == a.number = num /\ a.request_type = TYPE_A

IsDup(a, type, req) == a.type = type /\ a.request_type = req

IsDup2(a, num, req) == a.number = num /\ a.request_type = req

\* The searches, run with the list held still.
check_type_a_exists(type) ==
    IF Matches(heap, alarm_list, LAMBDA a : IsTypeA(a, type)) # {} THEN 1 ELSE 0

check_number_a_exists(num) ==
    IF Matches(heap, alarm_list, LAMBDA a : IsNumberA(a, num)) # {} THEN 1 ELSE 0

check_dup(type, req) ==
    IF Matches(heap, alarm_list, LAMBDA a : IsDup(a, type, req)) # {} THEN 1 ELSE 0

check_dup_2(num, req) ==
    IF Matches(heap, alarm_list, LAMBDA a : IsDup2(a, num, req)) # {} THEN 1 ELSE 0

remove_alarm(h, head, lv, number) ==
    RemoveFirst(h, head, lv,
                LAMBDA a : a.number = number /\ a.request_type = TYPE_A)

remove_alarm_B(h, head, lv, type) ==
    RemoveFirst(h, head, lv,
                LAMBDA a : a.request_type = TYPE_B /\ a.type = type)

remove_alarm_C(h, head, lv, number) ==
    RemoveFirst(h, head, lv,
                LAMBDA a : a.request_type = TYPE_C /\ a.number = number)

\* A walk that stops on the wrong side of the comparison.
InsertBefore_wrong(nextNumber, alarmNumber) == nextNumber < alarmNumber

\* The comparison that stops alarm_insert's walk before a node.
InsertBefore(nextNumber, alarmNumber) == nextNumber > alarmNumber

\* alarm_insert's walk: where the loop stops for the node `a`.
\* mode: "replace" (next is replaced), "before" (a goes before next),
\* "end" (next is NULL, last is the tail's link or the list header).
alarm_insert_find(h, head, a) ==
    LET l == ListOf(h, head)
        hit == {i \in 1..Len(l) :
                   \/ (h[l[i]].number = h[a].number /\ h[a].request_type = TYPE_A)
                   \/ InsertBefore(h[l[i]].number, h[a].number)}
    IN  IF hit = {}
        THEN [mode |-> "end",
              last |-> IF Len(l) = 0 THEN NULL ELSE l[Len(l)],
              next |-> NULL]
        ELSE LET i == MinOf(hit)
             IN  [mode |-> IF h[l[i]].number = h[a].number
                              /\ h[a].request_type = TYPE_A
                           THEN "replace" ELSE "before",
                  last |-> IF i = 1 THEN NULL ELSE l[i - 1],
                  next |-> l[i]]
\* An alarm_insert that links the new node in front of the node it should
\* replace and leaves that node in the list.
alarm_insert_link_keeps_old(h, head, lv, a, mode, last, next, pt) ==
    IF mode = "end"
    THEN LET s == StoreLast(h, head, last, a)
         IN  [h |-> [s.h EXCEPT ![a].link = NULL], head |-> s.head, live |-> lv]
    ELSE LET s == StoreLast([h EXCEPT ![a].link = next], head, last, a)
         IN  [h |-> s.h, head |-> s.head, live |-> lv]

\* alarm_insert's writes once the walk has stopped. Replacing a node copies
\* its type into prev_type; a Type C node never had its type set, so what is
\* copied from it is whatever the cell held (pt).
alarm_insert_link(h, head, lv, a, mode, last, next, pt) ==
    IF mode = "replace"
    THEN LET h1 == [h EXCEPT ![a].link = h[next].link,
                             ![a].prev_type =
                                 IF h[next].request_type = TYPE_C THEN pt
                                 ELSE h[next].type]
             s == StoreLast(h1, head, last, a)
         IN  [h |-> s.h, head |-> s.head, live |-> lv \ {next}]
    ELSE IF mode = "before"
    THEN LET s == StoreLast([h EXCEPT ![a].link = next], head, last, a)
         IN  [h |-> s.h, head |-> s.head, live |-> lv]
    ELSE LET s == StoreLast(h, head, last, a)
         IN  [h |-> [s.h EXCEPT ![a].link = NULL], head |-> s.head, live |-> lv]

\* ---------------------------------------------------------------- Init
InitShared ==
    /\ heap = [n \in Nodes |-> alarm_t]
    /\ live = {}
    /\ alarm_list = NULL
    /\ thread_list = <<>>
    /\ rw_sem = 1
    /\ read_count = 0
    /\ writing = 0
    /\ ready = 0
    /\ insert_flag = 0
    /\ malarm = [s \in Subs |-> NULL]
    /\ mkind = [s \in Subs |-> 0]
    /\ mexists = [s \in Subs |-> 0]
    /\ mnone = [s \in Subs |-> FALSE]
    /\ mdup = [s \in Subs |-> 0]
    /\ mtmp = [s \in Subs |-> 0]
    /\ mlast = [s \in Subs |-> NULL]
    /\ mnext = [s \in Subs |-> NULL]
    /\ mmode = [s \in Subs |-> "none"]
    /\ mresult = [s \in Subs |-> "none"]
    /\ nsub = [s \in Subs |-> 0]
    /\ dpc = "d_wait"
    /\ dnext = NULL
    /\ dval = 0
    /\ dtmp = 0
    /\ wpc = [w \in Workers |-> "none"]
    /\ walarm = [w \in Workers |-> NULL]
    /\ wflag = [w \in Workers |-> 0]
    /\ wtype = [w \in Workers |-> 0]
    /\ warg = [w \in Workers |-> NULL]
    /\ wtmp = [w \in Workers |-> 0]
    /\ wcancel = [w \in Workers |-> FALSE]
    /\ wcstate = [w \in Workers |-> "enable"]
    /\ shown = [n \in Numbers |-> 0]
    /\ crashed = FALSE

\* The program: one main thread reading commands.
Init ==
    /\ InitShared
    /\ mpc = [s \in Subs |-> IF s = 1 THEN "m_read" ELSE "off"]

\* The program after the commands "1 MessageType(1, 2) ...", "Create_Thread:
\* MessageType(1)" and "1 MessageType(1, 1) ..." were admitted and processed,
\* the Type B request's cell having held the number 2: the list holds the
\* three requests, none new, the display thread of type 1 was created and
\* has not run yet, and main and alarm_thread are back where Init has them.
\* nsub counts the commands from here on.
InitWatched ==
    /\ heap = [n \in Nodes |->
                 CASE n = 1 -> [alarm_t EXCEPT !.link = 2, !.number = 2, !.type = 1,
                                               !.prev_type = 1,
                                               !.time = Seconds,
                                               !.request_type = TYPE_A]
                   [] n = 2 -> [alarm_t EXCEPT !.number = 2, !.type = 1,
                                               !.request_type = TYPE_B]
                   [] n = 3 -> [alarm_t EXCEPT !.link = 1, !.number = 1, !.type = 1,
                                               !.prev_type = 1,
                                               !.time = Seconds,
                                               !.request_type = TYPE_A]
                   [] OTHER -> alarm_t]
    /\ live = {1, 2, 3}
    /\ alarm_list = 3
    /\ thread_list = <<[type |-> 1, tid |-> 1]>>
    /\ rw_sem = 1
    /\ read_count = 0
    /\ writing = 0
    /\ ready = 0
    /\ insert_flag = 0
    /\ malarm = [s \in Subs |-> IF s = 1 THEN 3 ELSE NULL]
    /\ mkind = [s \in Subs |-> IF s = 1 THEN TYPE_A ELSE 0]
    /\ mexists = [s \in Subs |-> 0]
    /\ mnone = [s \in Subs |-> FALSE]
    /\ mdup = [s \in Subs |-> 0]
    /\ mtmp = [s \in Subs |-> 0]
    /\ mlast = [s \in Subs |-> NULL]
    /\ mnext = [s \in Subs |-> NULL]
    /\ mmode = [s \in Subs |-> "none"]
    /\ mresult = [s \in Subs |-> IF s = 1 THEN "ACCEPTED" ELSE "none"]
    /\ nsub = [s \in Subs |-> 0]
    /\ dpc = "d_wait"
    /\ dnext = NULL
    /\ dval = 0
    /\ dtmp = 0
    /\ wpc = [w \in Workers |-> IF w = 1 THEN "w_start" ELSE "none"]
    /\ walarm = [w \in Workers |-> NULL]
    /\ wflag = [w \in Workers |-> 0]
    /\ wtype = [w \in Workers |-> 0]
    /\ warg = [w \in Workers |-> IF w = 1 THEN 2 ELSE NULL]
    /\ wtmp = [w \in Workers |-> 0]
    /\ wcancel = [w \in Workers |-> FALSE]
    /\ wcstate = [w \in Workers |-> "enable"]
    /\ shown = [n \in Numbers |-> 0]
    /\ crashed = FALSE
    /\ mpc = [s \in Subs |-> IF s = 1 THEN "m_read" ELSE "off"]

\* The program after the commands "1 MessageType(1, 1) ..." and
\* "1 MessageType(2, 2) ..." were admitted and processed: the list holds the
\* two requests, neither new, and no display thread exists. nsub counts the
\* commands from here on.
InitTwo ==
    /\ heap = [n \in Nodes |->
                 CASE n = 1 -> [alarm_t EXCEPT !.link = 2, !.number = 1, !.type = 1,
                                               !.prev_type = 1,
                                               !.time = Seconds,
                                               !.request_type = TYPE_A]
                   [] n = 2 -> [alarm_t EXCEPT !.number = 2, !.type = 2,
                                               !.prev_type = 2,
                                               !.time = Seconds,
                                               !.request_type = TYPE_A]
                   [] OTHER -> alarm_t]
    /\ live = {1, 2}
    /\ alarm_list = 1
    /\ thread_list = <<>>
    /\ rw_sem = 1
    /\ read_count = 0
    /\ writing = 0
    /\ ready = 0
    /\ insert_flag = 0
    /\ malarm = [s \in Subs |-> IF s = 1 THEN 2 ELSE NULL]
    /\ mkind = [s \in Subs |-> IF s = 1 THEN TYPE_A ELSE 0]
    /\ mexists = [s \in Subs |-> 0]
    /\ mnone = [s \in Subs |-> FALSE]
    /\ mdup = [s \in Subs |-> 0]
    /\ mtmp = [s \in Subs |-> 0]
    /\ mlast = [s \in Subs |-> NULL]
    /\ mnext = [s \in Subs |-> NULL]
    /\ mmode = [s \in Subs |-> "none"]
    /\ mresult = [s \in Subs |-> IF s = 1 THEN "ACCEPTED" ELSE "none"]
    /\ nsub = [s \in Subs |-> 0]
    /\ dpc = "d_wait"
    /\ dnext = NULL
    /\ dval = 0
    /\ dtmp = 0
    /\ wpc = [w \in Workers |-> "none"]
    /\ walarm = [w \in Workers |-> NULL]
    /\ wflag = [w \in Workers |-> 0]
    /\ wtype = [w \in Workers |-> 0]
    /\ warg = [w \in Workers |-> NULL]
    /\ wtmp = [w \in Workers |-> 0]
    /\ wcancel = [w \in Workers |-> FALSE]
    /\ wcstate = [w \in Workers |-> "enable"]
    /\ shown = [n \in Numbers |-> 0]
    /\ crashed = FALSE
    /\ mpc = [s \in Subs |-> IF s = 1 THEN "m_read" ELSE "off"]

\* The program after the commands "1 MessageType(1, 1) ...",
\* "1 MessageType(2, 2) ...", "Create_Thread: MessageType(1)" and
\* "Create_Thread: MessageType(2)" were admitted and processed, the Type B
\* requests' cells having held the number 0, and the two display threads
\* have displayed their requests for a while: both are between two passes.
\* They were in their read sections together and left together, each
\* loading read_count = 2 before the other stored 1, so read_count is 1
\* with no thread counted in it. nsub counts the commands from here on.
InitWedged ==
    /\ heap = [n \in Nodes |->
                 CASE n = 1 -> [alarm_t EXCEPT !.link = 2, !.number = 1, !.type = 1,
                                               !.prev_type = 1,
                                               !.time = 0,
                                               !.request_type = TYPE_A]
                   [] n = 2 -> [alarm_t EXCEPT !.number = 2, !.type = 2,
                                               !.prev_type = 2,
                                               !.time = 0,
                                               !.request_type = TYPE_A]
                   [] n = 3 -> [alarm_t EXCEPT !.link = 4, !.type = 1,
                                               !.request_type = TYPE_B]
                   [] n = 4 -> [alarm_t EXCEPT !.link = 1, !.type = 2,
                                               !.request_type = TYPE_B]
                   [] OTHER -> alarm_t]
    /\ live = {1, 2, 3, 4}
    /\ alarm_list = 3
    /\ thread_list = <<[type |-> 1, tid |-> 1], [type |-> 2, tid |-> 2]>>
    /\ rw_sem = 1
    /\ read_count = 1
    /\ writing = 0
    /\ ready = 0
    /\ insert_flag = 0
    /\ malarm = [s \in Subs |-> IF s = 1 THEN 4 ELSE NULL]
    /\ mkind = [s \in Subs |-> IF s = 1 THEN TYPE_B ELSE 0]
    /\ mexists = [s \in Subs |-> 0]
    /\ mnone = [s \in Subs |-> FALSE]
    /\ mdup = [s \in Subs |-> 0]
    /\ mtmp = [s \in Subs |-> 0]
    /\ mlast = [s \in Subs |-> NULL]
    /\ mnext = [s \in Subs |-> NULL]
    /\ mmode = [s \in Subs |-> "none"]
    /\ mresult = [s \in Subs |-> IF s = 1 THEN "ACCEPTED" ELSE "none"]
    /\ nsub = [s \in Subs |-> 0]
    /\ dpc = "d_wait"
    /\ dnext = NULL
    /\ dval = 0
    /\ dtmp = 0
    /\ wpc = [w \in Workers |-> "w_spin"]
    /\ walarm = [w \in Workers |-> IF w = 1 THEN 2 ELSE NULL]
    /\ wflag = [w \in Workers |-> IF w = 1 THEN 0 ELSE 1]
    /\ wtype = [w \in Workers |-> w]
    /\ warg = [w \in Workers |-> w + 2]
    /\ wtmp = [w \in Workers |-> 0]
    /\ wcancel = [w \in Workers |-> FALSE]
    /\ wcstate = [w \in Workers |-> "enable"]
    /\ shown = [n \in Numbers |-> DisplayCap]
    /\ crashed = FALSE
    /\ mpc = [s \in Subs |-> IF s = 1 THEN "m_read" ELSE "off"]

\* The N-submitter scenario: NSubmit threads, each running main's Type A
\* admission once.
InitN ==
    /\ InitShared
    /\ mpc = [s \in Subs |-> "m_read"]

\* ------------------------------------------------ main (the Submitter)
\* One pass of main's while loop up to the request's validation: malloc and
\* sscanf. A Type A request sets every field the list code reads, and its
\* time is Seconds from now; expo is set by nobody and stays what the cell
\* held. A Type B request sets only type, so its number is what the cell held
\* (g); a Type C request sets only number.
ReadCommand(s, kind, type, num, g) ==
    /\ ~crashed
    /\ mpc[s] = "m_read"
    /\ Nodes \ live # {}
    /\ \E a \in malloc :
       /\ malarm' = [malarm EXCEPT ![s] = a]
       /\ live' = live \cup {a}
       /\ mkind' = [mkind EXCEPT ![s] = kind]
       /\ heap' = [heap EXCEPT ![a] =
             IF kind = TYPE_A
             THEN [@ EXCEPT !.time = Seconds, !.type = type,
                            !.number = num, !.prev_type = type,
                            !.is_new = 1, !.request_type = TYPE_A]
             ELSE IF kind = TYPE_B
             THEN [@ EXCEPT !.type = type, !.number = g]
             ELSE [@ EXCEPT !.number = num]]
    /\ mpc' = [mpc EXCEPT ![s] = IF kind = TYPE_A THEN "m_rdy_ld" ELSE "m_exists"]
    /\ mresult' = [mresult EXCEPT ![s] = "pending"]
    /\ UNCHANGED <<alarm_list, thread_list, syncVars, insert_flag, mexists, mnone, mdup,
                   mtmp, mlast, mnext, mmode, nsub, dispVars, workVars, crashed>>

M_Read(s) ==
    /\ nsub[s] < MaxSubmits
    /\ \E kind \in {TYPE_A, TYPE_B, TYPE_C}, type \in Types, num \in Numbers,
          g \in {0, 1} :
          /\ kind = TYPE_A \/ kind = TYPE_B \/ type = 1
          /\ kind = TYPE_A \/ kind = TYPE_C \/ num = 1
          /\ kind = TYPE_B \/ g = 0
          /\ ReadCommand(s, kind, type, num, g)

\* The main thread of the cancel scenario: "Cancel: Message(1)" and
\* "Create_Thread: MessageType(1)", the latter's cell having held the
\* number 0.
M_ReadT(s) ==
    /\ nsub[s] < TornSubmits
    /\ \E kind \in {TYPE_B, TYPE_C} : ReadCommand(s, kind, 1, 1, 0)

\* The main thread of the two-cancel scenario: "Cancel: Message(n)".
M_ReadC(s) ==
    /\ nsub[s] < CancelSubmits
    /\ \E num \in Numbers : ReadCommand(s, TYPE_C, 1, num, 0)

\* The main thread of the script scenario: "1 MessageType(1, 1) ...", then
\* "Create_Thread: MessageType(1)", the cell having held the number 0, then
\* possibly "Cancel: Message(1)" or the replacement "1 MessageType(2, 1) ...".
M_ReadL(s) ==
    /\ nsub[s] < ScriptLen
    /\ \/ nsub[s] = 0 /\ ReadCommand(s, TYPE_A, 1, 1, 0)
       \/ nsub[s] = 1 /\ ReadCommand(s, TYPE_B, 1, 1, 0)
       \/ nsub[s] = 2 /\ ReadCommand(s, TYPE_C, 1, 1, 0)
       \/ nsub[s] = 2 /\ ReadCommand(s, TYPE_A, 2, 1, 0)

\* The main thread of the two-thread scenario: "Cancel: Message(1)".
M_ReadP(s) ==
    /\ nsub[s] < PairSubmits
    /\ ReadCommand(s, TYPE_C, 1, 1, 0)

\* A submitter of the N-submitter scenario: one Type A request of type 1,
\* number s.
M_ReadN(s) ==
    /\ nsub[s] < 1
    /\ ReadCommand(s, TYPE_A, 1, s, 0)

\* What a thread holding a pointer to the node n reads as n->link: the
\* field, or, once n was freed, possibly what the allocator left there.
LinkRead(n) == IF n \in live THEN {heap[n].link} ELSE {heap[n].link, NULL}

\* The test main's first search applies: check_type_a_exists(type) for a
\* Type B request, check_number_a_exists(number) for a Type C request.
ExistsTest(s, a) ==
    IF mkind[s] = TYPE_B THEN IsTypeA(a, heap[malarm[s]].type)
    ELSE IsNumberA(a, heap[malarm[s]].number)

\* The test main's second search applies: check_dup(type, TYPE_B) for a
\* Type B request, check_dup_2(number, TYPE_C) for a Type C request.
DupTest(s, a) ==
    IF mkind[s] = TYPE_B THEN IsDup(a, heap[malarm[s]].type, TYPE_B)
    ELSE IsDup2(a, heap[malarm[s]].number, TYPE_C)

\* main calls the searches without the semaphore, so each runs entry by
\* entry while alarm_thread may be unlinking and freeing entries.
\* The first search starts: next = alarm_list. mnone records whether the
\* list held no match at this moment.
M_Exists(s) ==
    /\ ~crashed
    /\ mpc[s] = "m_exists"
    /\ mnone' = [mnone EXCEPT ![s] =
          \A n \in Linked :
              ~(/\ heap[n].request_type = TYPE_A
                /\ mkind[s] = TYPE_B => heap[n].type = heap[malarm[s]].type
                /\ mkind[s] = TYPE_C => heap[n].number = heap[malarm[s]].number)]
    /\ IF alarm_list = NULL
       THEN /\ mexists' = [mexists EXCEPT ![s] = 0]
            /\ mpc' = [mpc EXCEPT ![s] = "m_dup"]
            /\ UNCHANGED mnext
       ELSE /\ mnext' = [mnext EXCEPT ![s] = alarm_list]
            /\ mpc' = [mpc EXCEPT ![s] = "m_exists_it"]
            /\ UNCHANGED mexists
    /\ UNCHANGED <<memVars, thread_list, syncVars, insert_flag, malarm, mkind,
                   mdup, mtmp, mlast, mmode, mresult, nsub, dispVars,
                   workVars, crashed>>

\* One turn of the first search's loop: return 1 on a match, else
\* next = next->link, and return 0 at the end of the list.
M_ExistsLoop(s) ==
    /\ ~crashed
    /\ mpc[s] = "m_exists_it"
    /\ IF ExistsTest(s, heap[mnext[s]])
       THEN /\ mexists' = [mexists EXCEPT ![s] = 1]
            /\ mnext' = [mnext EXCEPT ![s] = NULL]
            /\ mpc' = [mpc EXCEPT ![s] = "m_dup"]
       ELSE \E n \in LinkRead(mnext[s]) :
            /\ mnext' = [mnext EXCEPT ![s] = n]
            /\ mexists' = [mexists EXCEPT ![s] = IF n = NULL THEN 0 ELSE @]
            /\ mpc' = [mpc EXCEPT ![s] = IF n = NULL THEN "m_dup" ELSE @]
    /\ UNCHANGED <<memVars, thread_list, syncVars, insert_flag, malarm, mkind,
                   mnone, mdup, mtmp, mlast, mmode, mresult, nsub, dispVars,
                   workVars, crashed>>

\* The second search starts: next = alarm_list.
M_Dup(s) ==
    /\ ~crashed
    /\ mpc[s] = "m_dup"
    /\ IF alarm_list = NULL
       THEN /\ mdup' = [mdup EXCEPT ![s] = 0]
            /\ mpc' = [mpc EXCEPT ![s] = "m_dec"]
            /\ UNCHANGED mnext
       ELSE /\ mnext' = [mnext EXCEPT ![s] = alarm_list]
            /\ mpc' = [mpc EXCEPT ![s] = "m_dup_it"]
            /\ UNCHANGED mdup
    /\ UNCHANGED <<memVars, thread_list, syncVars, insert_flag, malarm, mkind,
                   mexists, mnone, mtmp, mlast, mmode, mresult, nsub, dispVars,
                   workVars, crashed>>

\* One turn of the second search's loop.
M_DupLoop(s) ==
    /\ ~crashed
    /\ mpc[s] = "m_dup_it"
    /\ IF DupTest(s, heap[mnext[s]])
       THEN /\ mdup' = [mdup EXCEPT ![s] = 1]
            /\ mnext' = [mnext EXCEPT ![s] = NULL]
            /\ mpc' = [mpc EXCEPT ![s] = "m_dec"]
       ELSE \E n \in LinkRead(mnext[s]) :
            /\ mnext' = [mnext EXCEPT ![s] = n]
            /\ mdup' = [mdup EXCEPT ![s] = IF n = NULL THEN 0 ELSE @]
            /\ mpc' = [mpc EXCEPT ![s] = IF n = NULL THEN "m_dec" ELSE @]
    /\ UNCHANGED <<memVars, thread_list, syncVars, insert_flag, malarm, mkind,
                   mexists, mnone, mtmp, mlast, mmode, mresult, nsub, dispVars,
                   workVars, crashed>>

\* A chain that forgets the test of exists.
Validate_skips_exists(exists, dup) ==
    IF dup = 1 THEN "DUPLICATE" ELSE "ACCEPTED"

\* What the if/else-if chain on exists and dup answers.
Validate(exists, dup) ==
    IF exists = 0 THEN "NOT_FOUND"
    ELSE IF dup = 1 THEN "DUPLICATE"
    ELSE "ACCEPTED"

\* The chain itself: a rejected request is freed, an accepted one becomes a
\* new request of its kind. exists and dup go out of scope.
M_Decide(s) ==
    /\ ~crashed
    /\ mpc[s] = "m_dec"
    /\ IF Validate(mexists[s], mdup[s]) = "ACCEPTED"
       THEN /\ heap' = [heap EXCEPT ![malarm[s]].request_type = mkind[s],
                                    ![malarm[s]].is_new = 1]
            /\ mpc' = [mpc EXCEPT ![s] = "m_rdy_ld"]
            /\ UNCHANGED <<live, mresult, nsub>>
       ELSE /\ live' = live \ {malarm[s]}
            /\ mresult' = [mresult EXCEPT ![s] = Validate(mexists[s], mdup[s])]
            /\ nsub' = [nsub EXCEPT ![s] = @ + 1]
            /\ mpc' = [mpc EXCEPT ![s] = "m_read"]
            /\ UNCHANGED heap
    /\ mexists' = [mexists EXCEPT ![s] = 0]
    /\ mdup' = [mdup EXCEPT ![s] = 0]
    /\ mnone' = [mnone EXCEPT ![s] = FALSE]
    /\ UNCHANGED <<alarm_list, thread_list, syncVars, insert_flag, malarm, mkind,
                   mtmp, mlast, mnext, mmode, dispVars, workVars, crashed>>

\* ready++, a load and a store.
M_ReadyLoad(s) ==
    /\ ~crashed
    /\ mpc[s] = "m_rdy_ld"
    /\ mtmp' = [mtmp EXCEPT ![s] = ready]
    /\ mpc' = [mpc EXCEPT ![s] = "m_rdy_st"]
    /\ UNCHANGED <<memVars, thread_list, syncVars, insert_flag, malarm, mkind,
                   mexists, mnone, mdup, mlast, mnext, mmode, mresult, nsub, dispVars,
                   workVars, crashed>>

M_ReadyStore(s) ==
    /\ ~crashed
    /\ mpc[s] = "m_rdy_st"
    /\ ready' = mtmp[s] + 1
    /\ mpc' = [mpc EXCEPT ![s] = "m_w_rc"]
    /\ UNCHANGED <<memVars, thread_list, rw_sem, read_count, writing, insert_flag,
                   malarm, mkind, mexists, mnone, mdup, mtmp, mlast, mnext, mmode,
                   mresult, nsub, dispVars, workVars, crashed>>

\* What lets a writer's busy wait read on past read_count.
ReadersDrained(rc) == ~(rc > 0)

\* while(read_count > 0 || writing > 0): the left operand. The loop spins
\* while it is true.
M_WaitReaders(s) ==
    /\ ~crashed
    /\ mpc[s] = "m_w_rc"
    /\ ReadersDrained(read_count)
    /\ mpc' = [mpc EXCEPT ![s] = "m_w_wr"]
    /\ UNCHANGED <<memVars, thread_list, syncVars, insert_flag, malarm, mkind,
                   mexists, mnone, mdup, mtmp, mlast, mnext, mmode, mresult, nsub,
                   dispVars, workVars, crashed>>

\* The right operand: a writer sends the loop round again.
M_WaitWriter(s) ==
    /\ ~crashed
    /\ mpc[s] = "m_w_wr"
    /\ mpc' = [mpc EXCEPT ![s] = IF writing > 0 THEN "m_w_rc" ELSE "m_sem"]
    /\ UNCHANGED <<memVars, thread_list, syncVars, insert_flag, malarm, mkind,
                   mexists, mnone, mdup, mtmp, mlast, mnext, mmode, mresult, nsub,
                   dispVars, workVars, crashed>>

\* A sem_wait that never blocks.
SemAvailable_never_blocks(v) == TRUE

\* sem_wait(&rw_sem) returns once the semaphore's value is positive.
SemAvailable(v) == v > 0

M_SemWait(s) ==
    /\ ~crashed
    /\ mpc[s] = "m_sem"
    /\ SemAvailable(rw_sem)
    /\ rw_sem' = rw_sem - 1
    /\ mpc' = [mpc EXCEPT ![s] = "m_wr_inc"]
    /\ UNCHANGED <<memVars, thread_list, read_count, writing, ready, insert_flag,
                   malarm, mkind, mexists, mnone, mdup, mtmp, mlast, mnext, mmode,
                   mresult, nsub, dispVars, workVars, crashed>>

\* writing++
M_WritingInc(s) ==
    /\ ~crashed
    /\ mpc[s] = "m_wr_inc"
    /\ writing' = writing + 1
    /\ mpc' = [mpc EXCEPT ![s] = "m_find"]
    /\ UNCHANGED <<memVars, thread_list, rw_sem, read_count, ready, insert_flag,
                   malarm, mkind, mexists, mnone, mdup, mtmp, mlast, mnext, mmode,
                   mresult, nsub, dispVars, workVars, crashed>>

\* alarm_insert(alarm): the walk down the list.
M_InsertFind(s) ==
    /\ ~crashed
    /\ mpc[s] = "m_find"
    /\ LET r == alarm_insert_find(heap, alarm_list, malarm[s]) IN
       /\ mlast' = [mlast EXCEPT ![s] = r.last]
       /\ mnext' = [mnext EXCEPT ![s] = r.next]
       /\ mmode' = [mmode EXCEPT ![s] = r.mode]
    /\ mpc' = [mpc EXCEPT ![s] = "m_link"]
    /\ UNCHANGED <<memVars, thread_list, syncVars, insert_flag, malarm, mkind,
                   mexists, mnone, mdup, mtmp, mresult, nsub, dispVars, workVars,
                   crashed>>

\* alarm_insert(alarm): the writes that link the node.
M_InsertLink(s) ==
    /\ ~crashed
    /\ mpc[s] = "m_link"
    /\ \E pt \in {0} \cup Types :
          /\ (mmode[s] = "replace" /\ heap[mnext[s]].request_type = TYPE_C) \/ pt = 0
          /\ LET r == alarm_insert_link(heap, alarm_list, live, malarm[s],
                                        mmode[s], mlast[s], mnext[s], pt) IN
             /\ heap' = r.h
             /\ alarm_list' = r.head
             /\ live' = r.live
    /\ mpc' = [mpc EXCEPT ![s] = "m_flag"]
    /\ UNCHANGED <<thread_list, syncVars, insert_flag, malarm, mkind, mexists, mnone,
                   mdup, mtmp, mlast, mnext, mmode, mresult, nsub, dispVars,
                   workVars, crashed>>

\* A main thread that raised insert_flag only once alarm_thread had cleared
\* the flag of the request before.
M_SetFlag_waits(s) ==
    /\ ~crashed
    /\ mpc[s] = "m_flag"
    /\ insert_flag = 0
    /\ insert_flag' = 1
    /\ mpc' = [mpc EXCEPT ![s] = "m_wr_dec"]
    /\ UNCHANGED <<memVars, thread_list, syncVars, malarm, mkind, mexists, mnone, mdup,
                   mtmp, mlast, mnext, mmode, mresult, nsub, dispVars, workVars,
                   crashed>>

\* insert_flag = 1
M_SetFlag(s) ==
    /\ ~crashed
    /\ mpc[s] = "m_flag"
    /\ insert_flag' = 1
    /\ mpc' = [mpc EXCEPT ![s] = "m_wr_dec"]
    /\ UNCHANGED <<memVars, thread_list, syncVars, malarm, mkind, mexists, mnone, mdup,
                   mtmp, mlast, mnext, mmode, mresult, nsub, dispVars, workVars,
                   crashed>>

\* writing--
M_WritingDec(s) ==
    /\ ~crashed
    /\ mpc[s] = "m_wr_dec"
    /\ writing' = writing - 1
    /\ mpc' = [mpc EXCEPT ![s] = "m_post"]
    /\ UNCHANGED <<memVars, thread_list, rw_sem, read_count, ready, insert_flag,
                   malarm, mkind, mexists, mnone, mdup, mtmp, mlast, mnext, mmode,
                   mresult, nsub, dispVars, workVars, crashed>>

\* sem_post(&rw_sem)
M_SemPost(s) ==
    /\ ~crashed
    /\ mpc[s] = "m_post"
    /\ rw_sem' = rw_sem + 1
    /\ mpc' = [mpc EXCEPT ![s] = "m_unr_ld"]
    /\ UNCHANGED <<memVars, thread_list, read_count, writing, ready, insert_flag,
                   malarm, mkind, mexists, mnone, mdup, mtmp, mlast, mnext, mmode,
                   mresult, nsub, dispVars, workVars, crashed>>

\* ready--, a load and a store; then back to the prompt. The registers of
\* the ++ and of alarm_insert are dead from here on.
M_UnreadyLoad(s) ==
    /\ ~crashed
    /\ mpc[s] = "m_unr_ld"
    /\ mtmp' = [mtmp EXCEPT ![s] = ready]
    /\ mpc' = [mpc EXCEPT ![s] = "m_unr_st"]
    /\ UNCHANGED <<memVars, thread_list, syncVars, insert_flag, malarm, mkind,
                   mexists, mnone, mdup, mlast, mnext, mmode, mresult, nsub, dispVars,
                   workVars, crashed>>

M_UnreadyStore(s) ==
    /\ ~crashed
    /\ mpc[s] = "m_unr_st"
    /\ ready' = mtmp[s] - 1
    /\ mresult' = [mresult EXCEPT ![s] = "ACCEPTED"]
    /\ nsub' = [nsub EXCEPT ![s] = @ + 1]
    /\ mpc' = [mpc EXCEPT ![s] = "m_read"]
    /\ mtmp' = [mtmp EXCEPT ![s] = 0]
    /\ mlast' = [mlast EXCEPT ![s] = NULL]
    /\ mnext' = [mnext EXCEPT ![s] = NULL]
    /\ mmode' = [mmode EXCEPT ![s] = "none"]
    /\ UNCHANGED <<memVars, thread_list, rw_sem, read_count, writing, insert_flag,
                   malarm, mkind, mexists, mnone, mdup, dispVars, workVars, crashed>>

\* The writer admission protocol around alarm_insert.
Admit(s) ==
    \/ M_ReadyLoad(s) \/ M_ReadyStore(s) \/ M_WaitReaders(s) \/ M_WaitWriter(s)
    \/ M_SemWait(s) \/ M_WritingInc(s) \/ M_InsertFind(s) \/ M_InsertLink(s)
    \/ M_SetFlag(s) \/ M_WritingDec(s) \/ M_SemPost(s)
    \/ M_UnreadyLoad(s) \/ M_UnreadyStore(s)

Main(s) ==
    \/ M_Exists(s) \/ M_ExistsLoop(s) \/ M_Dup(s) \/ M_DupLoop(s)
    \/ M_Decide(s) \/ Admit(s)

\* ------------------------------------- alarm_thread (the Dispatcher)
\* insert_thread: the handle goes before the first handle of a greater type.
insert_thread(tl, thrd) ==
    LET gt == {i \in 1..Len(tl) : tl[i].type > thrd.type}
        k == IF gt = {} THEN Len(tl) + 1 ELSE MinOf(gt)
    IN  SubSeq(tl, 1, k - 1) \o <<thrd>> \o SubSeq(tl, k, Len(tl))

\* terminate_thread: the first handle of the type is cancelled and unlinked.
\* tid is the cancelled thread, 0 when the type has no handle.
terminate_thread(tl, type) ==
    LET eq == {i \in 1..Len(tl) : tl[i].type = type}
    IN  IF eq = {} THEN [tl |-> tl, tid |-> 0]
        ELSE LET k == MinOf(eq)
             IN  [tl |-> SubSeq(tl, 1, k - 1) \o SubSeq(tl, k + 1, Len(tl)),
                  tid |-> tl[k].tid]

\* pthread_cancel(tid): the request stays pending until the thread acts on it.
Cancelled(wc, tid) == IF tid = 0 THEN wc ELSE [wc EXCEPT ![tid] = TRUE]

\* check_useless_thread: the first handle whose type has no Type A alarm is
\* terminated.
check_useless_thread(tl) ==
    LET bad == {i \in 1..Len(tl) : check_type_a_exists(tl[i].type) = 0}
    IN  IF bad = {} THEN [tl |-> tl, tid |-> 0]
        ELSE terminate_thread(tl, tl[MinOf(bad)].type)

\* while (insert_flag == 0) spins; then the scan starts at the head.
D_Wait ==
    /\ ~crashed
    /\ dpc = "d_wait"
    /\ insert_flag # 0
    /\ dnext' = alarm_list
    /\ dpc' = "d_loop"
    /\ UNCHANGED <<memVars, thread_list, syncVars, insert_flag, mainVars, dval,
                   dtmp, workVars, crashed>>

\* The scan has run off the end of the list.
D_EndOfList ==
    /\ ~crashed
    /\ dpc = "d_loop"
    /\ dnext = NULL
    /\ dpc' = "d_done"
    /\ UNCHANGED <<memVars, thread_list, syncVars, insert_flag, mainVars, dnext,
                   dval, dtmp, workVars, crashed>>

\* A new Type A request: it is marked old and the scan stops.
D_NewA ==
    /\ ~crashed
    /\ dpc = "d_loop"
    /\ dnext # NULL
    /\ heap[dnext].request_type = TYPE_A
    /\ heap[dnext].is_new = 1
    /\ heap' = [heap EXCEPT ![dnext].is_new = 0]
    /\ dpc' = "d_useless"
    /\ UNCHANGED <<live, alarm_list, thread_list, syncVars, insert_flag, mainVars,
                   dnext, dval, dtmp, workVars, crashed>>

\* status = check_useless_thread(); break;
D_Useless ==
    /\ ~crashed
    /\ dpc = "d_useless"
    /\ LET r == check_useless_thread(thread_list) IN
       /\ thread_list' = r.tl
       /\ wcancel' = Cancelled(wcancel, r.tid)
    /\ dpc' = "d_done"
    /\ UNCHANGED <<memVars, syncVars, insert_flag, mainVars, dnext, dval, dtmp,
                   wpc, walarm, wflag, wtype, warg, wtmp, wcstate, crashed>>
    /\ UNCHANGED shown

\* A new Type B request: it is marked old, a periodic display thread is
\* created with &next->type as its argument, its handle is inserted, and the
\* scan stops.
D_NewB ==
    /\ ~crashed
    /\ dpc = "d_loop"
    /\ dnext # NULL
    /\ heap[dnext].request_type = TYPE_B
    /\ heap[dnext].is_new = 1
    /\ {w \in Workers : wpc[w] = "none"} # {}
    /\ LET w == MinOf({x \in Workers : wpc[x] = "none"}) IN
       /\ wpc' = [wpc EXCEPT ![w] = "w_start"]
       /\ warg' = [warg EXCEPT ![w] = dnext]
       /\ wcancel' = [wcancel EXCEPT ![w] = FALSE]
       /\ wcstate' = [wcstate EXCEPT ![w] = "enable"]
       /\ thread_list' = insert_thread(thread_list,
                                       [type |-> heap[dnext].type, tid |-> w])
    /\ heap' = [heap EXCEPT ![dnext].is_new = 0]
    /\ dpc' = "d_done"
    /\ UNCHANGED <<live, alarm_list, syncVars, insert_flag, mainVars, dnext, dval,
                   dtmp, walarm, wflag, wtype, wtmp, crashed>>
    /\ UNCHANGED shown

\* A Type C request: "next->is_new == 0" assigns nothing; a new one is
\* processed as a writer, and the scan stops either way.
D_TypeC ==
    /\ ~crashed
    /\ dpc = "d_loop"
    /\ dnext # NULL
    /\ heap[dnext].request_type = TYPE_C
    /\ dpc' = IF heap[dnext].is_new = 1 THEN "d_rdy_ld" ELSE "d_done"
    /\ UNCHANGED <<memVars, thread_list, syncVars, insert_flag, mainVars, dnext,
                   dval, dtmp, workVars, crashed>>

\* Anything else: next = next->link.
D_Step ==
    /\ ~crashed
    /\ dpc = "d_loop"
    /\ dnext # NULL
    /\ heap[dnext].request_type # TYPE_C
    /\ ~(heap[dnext].request_type \in {TYPE_A, TYPE_B} /\ heap[dnext].is_new = 1)
    /\ dnext' \in LinkRead(dnext)
    /\ UNCHANGED <<memVars, thread_list, syncVars, insert_flag, mainVars, dpc,
                   dval, dtmp, workVars, crashed>>

\* ready++
D_ReadyLoad ==
    /\ ~crashed
    /\ dpc = "d_rdy_ld"
    /\ dtmp' = ready
    /\ dpc' = "d_rdy_st"
    /\ UNCHANGED <<memVars, thread_list, syncVars, insert_flag, mainVars, dnext,
                   dval, workVars, crashed>>

D_ReadyStore ==
    /\ ~crashed
    /\ dpc = "d_rdy_st"
    /\ ready' = dtmp + 1
    /\ dpc' = "d_w_rc"
    /\ UNCHANGED <<memVars, thread_list, rw_sem, read_count, writing, insert_flag,
                   mainVars, dnext, dval, dtmp, workVars, crashed>>

\* while(read_count > 0 || writing > 0)
D_WaitReaders ==
    /\ ~crashed
    /\ dpc = "d_w_rc"
    /\ ReadersDrained(read_count)
    /\ dpc' = "d_w_wr"
    /\ UNCHANGED <<memVars, thread_list, syncVars, insert_flag, mainVars, dnext,
                   dval, dtmp, workVars, crashed>>

D_WaitWriter ==
    /\ ~crashed
    /\ dpc = "d_w_wr"
    /\ dpc' = IF writing > 0 THEN "d_w_rc" ELSE "d_sem"
    /\ UNCHANGED <<memVars, thread_list, syncVars, insert_flag, mainVars, dnext,
                   dval, dtmp, workVars, crashed>>

D_SemWait ==
    /\ ~crashed
    /\ dpc = "d_sem"
    /\ SemAvailable(rw_sem)
    /\ rw_sem' = rw_sem - 1
    /\ dpc' = "d_wr_inc"
    /\ UNCHANGED <<memVars, thread_list, read_count, writing, ready, insert_flag,
                   mainVars, dnext, dval, dtmp, workVars, crashed>>

D_WritingInc ==
    /\ ~crashed
    /\ dpc = "d_wr_inc"
    /\ writing' = writing + 1
    /\ dpc' = "d_cancel1"
    /\ UNCHANGED <<memVars, thread_list, rw_sem, read_count, ready, insert_flag,
                   mainVars, dnext, dval, dtmp, workVars, crashed>>

\* val = remove_alarm(next->number); if(val != 0) remove_alarm_C(next->number);
D_Cancel1 ==
    /\ ~crashed
    /\ dpc = "d_cancel1"
    /\ \E n \in {heap[dnext].number} :
       \E r \in {remove_alarm(heap, alarm_list, live, n)} :
       \E val \in {IF r.node = NULL THEN 0 ELSE heap[r.node].type} :
       \E c \in {IF val # 0 THEN remove_alarm_C(r.h, r.head, r.live, n) ELSE r} :
           /\ dval' = val
           /\ heap' = c.h
           /\ alarm_list' = c.head
           /\ live' = c.live
    /\ dpc' = "d_cancel2"
    /\ UNCHANGED <<thread_list, syncVars, insert_flag, mainVars, dnext, dtmp,
                   workVars, crashed>>

\* if(check_type_a_exists(val) == 0){ terminate_thread(val);
\*   remove_alarm_B(val); remove_alarm_C(next->number); }
\* next may have been freed by the first remove_alarm_C: next->number is then
\* read from whatever the cell holds by now.
D_Cancel2 ==
    /\ ~crashed
    /\ dpc = "d_cancel2"
    /\ IF check_type_a_exists(dval) = 0
       THEN LET t == terminate_thread(thread_list, dval)
                b == remove_alarm_B(heap, alarm_list, live, dval)
                c == remove_alarm_C(b.h, b.head, b.live, heap[dnext].number)
            IN  /\ thread_list' = t.tl
                /\ wcancel' = Cancelled(wcancel, t.tid)
                /\ heap' = c.h
                /\ alarm_list' = c.head
                /\ live' = c.live
       ELSE UNCHANGED <<memVars, thread_list, wcancel>>
    /\ dpc' = "d_wr_dec"
    /\ UNCHANGED <<syncVars, insert_flag, mainVars, dnext, dval, dtmp, wpc, walarm,
                   wflag, wtype, warg, wtmp, wcstate, crashed>>
    /\ UNCHANGED shown

D_WritingDec ==
    /\ ~crashed
    /\ dpc = "d_wr_dec"
    /\ writing' = writing - 1
    /\ dpc' = "d_post"
    /\ UNCHANGED <<memVars, thread_list, rw_sem, read_count, ready, insert_flag,
                   mainVars, dnext, dval, dtmp, workVars, crashed>>

D_SemPost ==
    /\ ~crashed
    /\ dpc = "d_post"
    /\ rw_sem' = rw_sem + 1
    /\ dpc' = "d_unr_ld"
    /\ UNCHANGED <<memVars, thread_list, read_count, writing, ready, insert_flag,
                   mainVars, dnext, dval, dtmp, workVars, crashed>>

\* ready--
D_UnreadyLoad ==
    /\ ~crashed
    /\ dpc = "d_unr_ld"
    /\ dtmp' = ready
    /\ dpc' = "d_unr_st"
    /\ UNCHANGED <<memVars, thread_list, syncVars, insert_flag, mainVars, dnext,
                   dval, workVars, crashed>>

D_UnreadyStore ==
    /\ ~crashed
    /\ dpc = "d_unr_st"
    /\ ready' = dtmp - 1
    /\ dpc' = "d_done"
    /\ UNCHANGED <<memVars, thread_list, rw_sem, read_count, writing, insert_flag,
                   mainVars, dnext, dval, dtmp, workVars, crashed>>

\* insert_flag = 0; and round the outer loop again. next, val and the
\* register of the ++ are dead from here on.
D_Done ==
    /\ ~crashed
    /\ dpc = "d_done"
    /\ insert_flag' = 0
    /\ dnext' = NULL
    /\ dval' = 0
    /\ dtmp' = 0
    /\ dpc' = "d_wait"
    /\ UNCHANGED <<memVars, thread_list, syncVars, mainVars, workVars, crashed>>

Dispatcher ==
    \/ D_Wait \/ D_EndOfList \/ D_NewA \/ D_Useless \/ D_NewB \/ D_TypeC \/ D_Step
    \/ D_ReadyLoad \/ D_ReadyStore \/ D_WaitReaders \/ D_WaitWriter \/ D_SemWait
    \/ D_WritingInc \/ D_Cancel1 \/ D_Cancel2 \/ D_WritingDec \/ D_SemPost
    \/ D_UnreadyLoad \/ D_UnreadyStore \/ D_Done

\* ------------------------- periodic_display_thread (a Display Worker)
\* The thread's first steps: alarm = alarm_list, type = *arg. flag is never
\* initialised: it starts as 1 (f = 1) or as anything else (f = 0).
W_Start(w) ==
    /\ ~crashed
    /\ wpc[w] = "w_start"
    /\ \E f \in {0, 1} : wflag' = [wflag EXCEPT ![w] = f]
    /\ walarm' = [walarm EXCEPT ![w] = alarm_list]
    /\ wtype' = [wtype EXCEPT ![w] = heap[warg[w]].type]
    /\ wpc' = [wpc EXCEPT ![w] = "w_spin"]
    /\ UNCHANGED <<memVars, thread_list, syncVars, insert_flag, mainVars, dispVars,
                   warg, wtmp, wcancel, wcstate, crashed>>
    /\ UNCHANGED shown

\* What lets a reader past "while(ready > 0)".
NoWriterReady(r) == ~(r > 0)

\* A display thread that went on without disabling cancellation.
W_Spin_stays_cancellable(w) ==
    /\ ~crashed
    /\ wpc[w] = "w_spin"
    /\ NoWriterReady(ready)
    /\ wcstate' = wcstate
    /\ wpc' = [wpc EXCEPT ![w] = "w_chk"]
    /\ UNCHANGED <<memVars, thread_list, syncVars, insert_flag, mainVars, dispVars,
                   walarm, wflag, wtype, warg, wtmp, wcancel, crashed>>
    /\ UNCHANGED shown

\* while(ready > 0) spins; then cancellation is disabled.
W_Spin(w) ==
    /\ ~crashed
    /\ wpc[w] = "w_spin"
    /\ NoWriterReady(ready)
    /\ wcstate' = [wcstate EXCEPT ![w] = "disable"]
    /\ wpc' = [wpc EXCEPT ![w] = "w_chk"]
    /\ UNCHANGED <<memVars, thread_list, syncVars, insert_flag, mainVars, dispVars,
                   walarm, wflag, wtype, warg, wtmp, wcancel, crashed>>
    /\ UNCHANGED shown

\* The thread ends: its locals are gone.
Exit(w) ==
    /\ wpc' = [wpc EXCEPT ![w] = "none"]
    /\ walarm' = [walarm EXCEPT ![w] = NULL]
    /\ wflag' = [wflag EXCEPT ![w] = 0]
    /\ wtype' = [wtype EXCEPT ![w] = 0]
    /\ warg' = [warg EXCEPT ![w] = NULL]
    /\ wtmp' = [wtmp EXCEPT ![w] = 0]
    /\ wcancel' = [wcancel EXCEPT ![w] = FALSE]
    /\ wcstate' = [wcstate EXCEPT ![w] = "enable"]

\* while (alarm_list == NULL): cancellation is enabled and tested.
W_Empty(w) ==
    /\ ~crashed
    /\ wpc[w] = "w_chk"
    /\ alarm_list = NULL
    /\ IF wcancel[w]
       THEN Exit(w)
       ELSE /\ wcstate' = [wcstate EXCEPT ![w] = "enable"]
            /\ UNCHANGED <<wpc, walarm, wflag, wtype, warg, wtmp, wcancel>>
    /\ UNCHANGED <<memVars, thread_list, syncVars, insert_flag, mainVars, dispVars,
                   crashed>>
    /\ UNCHANGED shown

\* read_count++, a load and a store, once the list is not empty.
W_IncLoad(w) ==
    /\ ~crashed
    /\ wpc[w] = "w_chk"
    /\ alarm_list # NULL
    /\ wtmp' = [wtmp EXCEPT ![w] = read_count]
    /\ wpc' = [wpc EXCEPT ![w] = "w_inc_st"]
    /\ UNCHANGED <<memVars, thread_list, syncVars, insert_flag, mainVars, dispVars,
                   walarm, wflag, wtype, warg, wcancel, wcstate, crashed>>
    /\ UNCHANGED shown

W_IncStore(w) ==
    /\ ~crashed
    /\ wpc[w] = "w_inc_st"
    /\ wtmp[w] + 1 <= CountCap
    /\ read_count' = wtmp[w] + 1
    /\ wpc' = [wpc EXCEPT ![w] = "w_body"]
    /\ UNCHANGED <<memVars, thread_list, rw_sem, writing, ready, insert_flag,
                   mainVars, dispVars, walarm, wflag, wtype, warg, wtmp, wcancel,
                   wcstate, crashed>>
    /\ UNCHANGED shown

\* The node the thread examines in this pass: the head again when flag is 1.
Cursor(w) == IF wflag[w] = 1 THEN alarm_list ELSE walarm[w]

\* The request at node c is one the thread displays: a Type A request of the
\* thread's message type.
Displays(w, c) == heap[c].type = wtype[w] /\ heap[c].request_type = TYPE_A

\* check_prev: the request's type differs from the type it replaced.
check_prev(a) == a.type # a.prev_type

\* The request at node c is one the thread has the "Replaced" notice for: a
\* Type A request of another type that replaced a request of the thread's
\* type, with expo still 0.
Notices(w, c) ==
    /\ heap[c].type # wtype[w] /\ heap[c].request_type = TYPE_A
    /\ check_prev(heap[c]) /\ heap[c].prev_type = wtype[w]
    /\ heap[c].expo = 0

\* The read section with a node to examine. A request the thread has the
\* notice for was found with expo == 0. A request of the thread's type gets
\* its time set to now + seconds, and the wait for that time starts. Any
\* other request is passed over: the cursor moves on to its link. flag is
\* raised at the tail. Times are kept relative to now.
W_Body(w) ==
    /\ ~crashed
    /\ wpc[w] = "w_body"
    /\ Cursor(w) # NULL
    /\ \E l \in LinkRead(Cursor(w)) :
          /\ wflag' = [wflag EXCEPT ![w] = IF l = NULL THEN 1 ELSE 0]
          /\ IF Notices(w, Cursor(w))
             THEN /\ walarm' = [walarm EXCEPT ![w] = Cursor(w)]
                  /\ wpc' = [wpc EXCEPT ![w] = "w_notice"]
                  /\ heap' = heap
             ELSE IF Displays(w, Cursor(w))
             THEN /\ walarm' = [walarm EXCEPT ![w] = Cursor(w)]
                  /\ wpc' = [wpc EXCEPT ![w] = "w_wait"]
                  /\ heap' = [heap EXCEPT ![Cursor(w)].time = Seconds]
             ELSE /\ walarm' = [walarm EXCEPT ![w] = l]
                  /\ wpc' = [wpc EXCEPT ![w] = "w_dec_ld"]
                  /\ heap' = heap
    /\ UNCHANGED <<live, alarm_list, thread_list, syncVars, insert_flag, mainVars,
                   dispVars, wtype, warg, wtmp, wcancel, wcstate, shown, crashed>>

\* The notice is printed and expo is set; alarm = alarm->link. printf is a
\* cancellation point.
W_Notice(w) ==
    /\ ~crashed
    /\ wpc[w] = "w_notice"
    /\ heap' = [heap EXCEPT ![walarm[w]].expo = 1]
    /\ \/ /\ \E l \in LinkRead(walarm[w]) : walarm' = [walarm EXCEPT ![w] = l]
          /\ wpc' = [wpc EXCEPT ![w] = "w_dec_ld"]
          /\ UNCHANGED <<wflag, wtype, warg, wtmp, wcancel, wcstate>>
       \/ /\ wcancel[w] /\ wcstate[w] = "enable"
          /\ Exit(w)
    /\ UNCHANGED <<live, alarm_list, thread_list, syncVars, insert_flag, mainVars,
                   dispVars, shown, crashed>>

\* d seconds go by: every Type A request's time comes d nearer, down to 0
\* once it has passed.
Elapse(h, d) ==
    [n \in Nodes |->
        IF h[n].request_type = TYPE_A
        THEN [h[n] EXCEPT !.time = IF @ - d < 0 THEN 0 ELSE @ - d]
        ELSE h[n]]

\* One more display event of request number n, counted up to DisplayCap.
Display(n) == [shown EXCEPT ![n] = IF @ < DisplayCap THEN @ + 1 ELSE @]

\* The wait "while(alarm->time > now)" is over and the message is printed;
\* alarm = alarm->link. printf is a cancellation point: a thread whose
\* cancellation is enabled and pending may end there, inside its read section.
W_Display(w) ==
    /\ ~crashed
    /\ wpc[w] = "w_wait"
    /\ heap' = Elapse(heap, heap[walarm[w]].time)
    /\ shown' = Display(heap[walarm[w]].number)
    /\ \/ /\ \E l \in LinkRead(walarm[w]) : walarm' = [walarm EXCEPT ![w] = l]
          /\ wpc' = [wpc EXCEPT ![w] = "w_dec_ld"]
          /\ UNCHANGED <<wflag, wtype, warg, wtmp, wcancel, wcstate>>
       \/ /\ wcancel[w] /\ wcstate[w] = "enable"
          /\ Exit(w)
    /\ UNCHANGED <<live, alarm_list, thread_list, syncVars, insert_flag, mainVars,
                   dispVars, crashed>>

\* The read section with a null cursor: alarm->link faults and the process
\* dies.
W_Fault(w) ==
    /\ ~crashed
    /\ wpc[w] = "w_body"
    /\ Cursor(w) = NULL
    /\ crashed' = TRUE
    /\ UNCHANGED <<memVars, thread_list, syncVars, insert_flag, mainVars, dispVars,
                   workVars>>

\* read_count--, a load and a store.
W_DecLoad(w) ==
    /\ ~crashed
    /\ wpc[w] = "w_dec_ld"
    /\ wtmp' = [wtmp EXCEPT ![w] = read_count]
    /\ wpc' = [wpc EXCEPT ![w] = "w_dec_st"]
    /\ UNCHANGED <<memVars, thread_list, syncVars, insert_flag, mainVars, dispVars,
                   walarm, wflag, wtype, warg, wcancel, wcstate, crashed>>
    /\ UNCHANGED shown

W_DecStore(w) ==
    /\ ~crashed
    /\ wpc[w] = "w_dec_st"
    /\ wtmp[w] - 1 >= -CountCap
    /\ read_count' = wtmp[w] - 1
    /\ wpc' = [wpc EXCEPT ![w] = "w_end"]
    /\ UNCHANGED <<memVars, thread_list, rw_sem, writing, ready, insert_flag,
                   mainVars, dispVars, walarm, wflag, wtype, warg, wtmp, wcancel,
                   wcstate, crashed>>
    /\ UNCHANGED shown

\* Cancellation is enabled and tested at the end of the pass.
W_End(w) ==
    /\ ~crashed
    /\ wpc[w] = "w_end"
    /\ IF wcancel[w]
       THEN Exit(w)
       ELSE /\ wcstate' = [wcstate EXCEPT ![w] = "enable"]
            /\ wpc' = [wpc EXCEPT ![w] = "w_spin"]
            /\ wtmp' = [wtmp EXCEPT ![w] = 0]
            /\ UNCHANGED <<walarm, wflag, wtype, warg, wcancel>>
    /\ UNCHANGED <<memVars, thread_list, syncVars, insert_flag, mainVars, dispVars,
                   crashed>>
    /\ UNCHANGED shown

Worker(w) ==
    \/ W_Start(w) \/ W_Spin(w) \/ W_Empty(w) \/ W_IncLoad(w) \/ W_IncStore(w)
    \/ W_Body(w) \/ W_Notice(w) \/ W_Display(w) \/ W_Fault(w) \/ W_DecLoad(w)
    \/ W_DecStore(w) \/ W_End(w)

\* ------------------------------------------------ sections of the code
\* A display thread between its read_count++ and its read_count--.
ReaderInside(w) == wpc[w] \in {"w_body", "w_notice", "w_wait", "w_dec_ld", "w_dec_st"}

\* A submitter between its writing++ and its writing--.
MainInside(s) == mpc[s] \in {"m_find", "m_link", "m_flag", "m_wr_dec"}

\* alarm_thread between its writing++ and its writing--.
DispInside == dpc \in {"d_cancel1", "d_cancel2", "d_wr_dec"}

\* A submitter between its sem_wait and its sem_post.
MainHolds(s) == mpc[s] \in {"m_wr_inc", "m_find", "m_link", "m_flag", "m_wr_dec",
                            "m_post"}

\* alarm_thread between its sem_wait and its sem_post.
DispHolds == dpc \in {"d_wr_inc", "d_cancel1", "d_cancel2", "d_wr_dec", "d_post"}

\* The fields of the list's entries, from head to tail.
Registry == [i \in 1..Len(List) |-> heap[List[i]]]

\* The list's entries of one request type.
Entries(req) == {i \in 1..Len(List) : heap[List[i]].request_type = req}

\* The handles of one type in the thread list.
Handles(t) == {i \in 1..Len(thread_list) : thread_list[i].type = t}

\* alarm_thread spinning on insert_flag == 0.
DispIdle == insert_flag = 0 /\ dpc = "d_wait"

\* A step of the main thread.
MainStep == mpc'[1] # mpc[1] \/ mnext'[1] # mnext[1]

\* The main thread's steps before the if/else-if chain of a Type B or Type
\* C request: malloc and sscanf, and the two checks.
Validating(kind) ==
    /\ MainStep
    /\ mpc[1] \in {"m_read", "m_exists", "m_exists_it", "m_dup", "m_dup_it"}
    /\ mkind'[1] = kind

\* The main thread's step through the if/else-if chain of a request.
Deciding(kind) == MainStep /\ mpc[1] = "m_dec" /\ mkind[1] = kind

\* The request was rejected with the answer r: it is freed, nothing is
\* linked, the list and the thread list are as before, and the main thread
\* is back at its prompt.
RejectedAs(r) ==
    /\ mresult'[1] = r
    /\ mpc'[1] = "m_read"
    /\ Registry' = Registry
    /\ thread_list' = thread_list
    /\ malarm[1] \notin live'
    /\ malarm[1] \notin Linked'

\* -------------------------------------------------- the specifications
Next == M_Read(1) \/ Main(1) \/ Dispatcher \/ (\E w \in Workers : Worker(w))

Spec == Init /\ [][Next]_vars

\* The cancel scenario: from InitWatched on, the main thread and
\* alarm_thread while no display thread is scheduled. The list is never
\* empty and holds no new Type A request.
ScanBC ==
    \/ D_Wait \/ D_NewB \/ D_TypeC \/ D_Step
    \/ D_ReadyLoad \/ D_ReadyStore \/ D_WaitReaders \/ D_WaitWriter \/ D_SemWait
    \/ D_WritingInc \/ D_Cancel1 \/ D_Cancel2 \/ D_WritingDec \/ D_SemPost
    \/ D_UnreadyLoad \/ D_UnreadyStore \/ D_Done

NextT == M_ReadT(1) \/ Main(1) \/ ScanBC

SpecT == InitWatched /\ [][NextT]_vars

\* The two-cancel scenario: from InitTwo on, the main thread reading
\* Cancel commands and alarm_thread. Every entry alarm_thread finds new is
\* a Type C request.
ScanC ==
    \/ D_Wait \/ D_TypeC \/ D_Step
    \/ D_ReadyLoad \/ D_ReadyStore \/ D_WaitReaders \/ D_WaitWriter \/ D_SemWait
    \/ D_WritingInc \/ D_Cancel1 \/ D_Cancel2 \/ D_WritingDec \/ D_SemPost
    \/ D_UnreadyLoad \/ D_UnreadyStore \/ D_Done

NextC == M_ReadC(1) \/ Main(1) \/ ScanC

SpecC == InitTwo /\ [][NextC]_vars

\* The script scenario: the program from its start, the user typing the
\* script of M_ReadL and stopping anywhere in it.
NextL == M_ReadL(1) \/ Main(1) \/ Dispatcher \/ (\E w \in Workers : Worker(w))

SpecL == Init /\ [][NextL]_vars

\* Every thread that can take a step eventually takes one; nothing obliges
\* the user to type the next command.
FairL ==
    /\ SpecL
    /\ WF_vars(Main(1))
    /\ WF_vars(Dispatcher)
    /\ \A w \in Workers : WF_vars(Worker(w))

\* The two-thread scenario: from InitWedged on, the two display threads
\* making their passes over the list and the main thread reading one Cancel
\* command. alarm_thread spins on insert_flag all the while the main thread
\* has not linked the request.
Pass(w) ==
    \/ W_Spin(w) \/ W_IncLoad(w) \/ W_IncStore(w) \/ W_Body(w) \/ W_Display(w)
    \/ W_DecLoad(w) \/ W_DecStore(w) \/ W_End(w)

NextP == M_ReadP(1) \/ Main(1) \/ (\E w \in Workers : Pass(w))

SpecP == InitWedged /\ [][NextP]_vars

\* Every display thread that can take a step eventually takes one, and a
\* main thread whose busy wait can end again and again eventually leaves it.
FairP ==
    /\ SpecP
    /\ SF_vars(Main(1))
    /\ \A w \in Workers : WF_vars(Pass(w))

\* NSubmit concurrent submitters of Type A requests with the numbers
\* 1..NSubmit, while alarm_thread and the display threads are not scheduled.
NextN == \E s \in Subs : M_ReadN(s) \/ Admit(s)

SpecN == InitN /\ [][NextN]_vars

\* ------------------------------------------------------------ the claims
\* C1: no display thread is inside its read section (between read_count++
\* and read_count--) while the main thread or alarm_thread is inside its
\* writer section (between writing++ and writing--).
C1_ReaderWriterExclusion ==
    \A w \in Workers : ~(ReaderInside(w) /\ (MainInside(1) \/ DispInside))

\* C2: in every state, so after every completed alarm_insert, remove_alarm,
\* remove_alarm_B and remove_alarm_C, the alarm list is ordered by
\* non-decreasing message number from head to tail.
C2_ListOrdered ==
    \A i \in 1..(Len(List) - 1) : heap[List[i]].number <= heap[List[i + 1]].number

\* alarm_insert has just linked a request before a node of a greater number,
\* in a list of three or more.
C2_Witness == mpc[1] = "m_flag" /\ mmode[1] = "before" /\ Len(List) >= 3

\* C3: when alarm_insert links a Type A request whose number is that of a
\* Type A entry of the list, the new node takes that entry's place in the
\* list, its prev_type is that entry's type, the list is as long as before
\* and holds exactly one Type A entry of that number.
C3_ReplacementInPlace ==
    [][(/\ mpc[1] = "m_link" /\ mpc'[1] = "m_flag"
        /\ heap[malarm[1]].request_type = TYPE_A
        /\ \E i \in Entries(TYPE_A) : heap[List[i]].number = heap[malarm[1]].number)
       => LET a == malarm[1]
              old == {i \in Entries(TYPE_A) : heap[List[i]].number = heap[a].number}
          IN  /\ \A i \in old : /\ List' = [List EXCEPT ![i] = a]
                                /\ heap'[a].prev_type = heap[List[i]].type
              /\ Len(List') = Len(List)
              /\ Cardinality({i \in 1..Len(List') :
                                 /\ heap'[List'[i]].request_type = TYPE_A
                                 /\ heap'[List'[i]].number = heap[a].number}) = 1
      ]_vars

\* alarm_insert has just replaced a Type A entry of another type, in a list
\* of two or more.
C3_Witness ==
    /\ mpc[1] = "m_flag" /\ mmode[1] = "replace"
    /\ heap[mnext[1]].request_type = TYPE_A
    /\ heap[malarm[1]].prev_type # heap[malarm[1]].type
    /\ Len(List) >= 2

\* A submitter whose request alarm_insert has linked.
Admitted(s) ==
    mpc[s] \in {"m_flag", "m_wr_dec", "m_post", "m_unr_ld", "m_unr_st"} \/ nsub[s] = 1

\* C4: NSubmit submitters run main's Type A admission concurrently, with the
\* distinct numbers 1..NSubmit: at every moment the list holds exactly the
\* requests linked so far, in ascending order of number, so that once all
\* have returned it holds exactly NSubmit entries, the numbers 1..NSubmit
\* in order.
C4_AllAdmitted ==
    /\ Linked = {malarm[s] : s \in {x \in Subs : Admitted(x)}}
    /\ Len(List) = Cardinality(Linked)
    /\ \A i \in 1..(Len(List) - 1) : heap[List[i]].number < heap[List[i + 1]].number
    /\ \A i \in 1..Len(List) : heap[List[i]].request_type = TYPE_A
    /\ (\A s \in Subs : nsub[s] = 1)
       => /\ Len(List) = NSubmit
          /\ \A i \in 1..NSubmit : heap[List[i]].number = i

\* All have returned, and the requests were not linked in the order they
\* were allocated.
C4_Witness ==
    /\ \A s \in Subs : nsub[s] = 1
    /\ Len(List) = NSubmit
    /\ \E i \in 1..(Len(List) - 1) : List[i] > List[i + 1]

\* C5: the main thread's alarm_insert section and alarm_thread's Type C
\* section never overlap, and writing is never greater than 1.
C5_OneWriter == writing <= 1 /\ ~(MainInside(1) /\ DispInside)

\* alarm_thread is inside its section while the main thread, past its busy
\* wait, is held at sem_wait.
C5_Witness == DispInside /\ mpc[1] = "m_sem" /\ writing = 1

\* C6: the list holds at most one Type B entry per message type.
C6_AtMostOneWatch ==
    \A t \in Types :
        Cardinality({i \in Entries(TYPE_B) : heap[List[i]].type = t}) <= 1

\* C7: a Type B request whose type had no Type A entry in the list when
\* check_type_a_exists began gets the answer 0, and a Type B request that
\* got the answer 0 is rejected as NOT_FOUND: the request is freed, nothing
\* is linked, and the list and the thread list are as before.
C7_WatchNotFound ==
    [][/\ Validating(TYPE_B) => Registry' = Registry /\ thread_list' = thread_list
       /\ (Validating(TYPE_B) /\ mpc'[1] \in {"m_dup", "m_dup_it", "m_dec"} /\ mnone'[1])
          => mexists'[1] = 0
       /\ (Deciding(TYPE_B) /\ mexists[1] = 0) => RejectedAs("NOT_FOUND")
      ]_vars

\* A Type B request was just rejected as NOT_FOUND while the list holds
\* requests of other types.
C7_Witness ==
    /\ mpc[1] = "m_read" /\ mkind[1] = TYPE_B /\ mresult[1] = "NOT_FOUND"
    /\ Entries(TYPE_A) # {}

\* C8: a Type C request whose number had no Type A entry in the list when
\* check_number_a_exists began gets the answer 0, and a Type C request that
\* got the answer 0 is a no-op: the request is freed, no Type C entry is
\* linked, and the list and the thread list are as before.
C8_CancelNotFound ==
    [][/\ Validating(TYPE_C) => Registry' = Registry /\ thread_list' = thread_list
       /\ (Validating(TYPE_C) /\ mpc'[1] \in {"m_dup", "m_dup_it", "m_dec"} /\ mnone'[1])
          => mexists'[1] = 0
       /\ (Deciding(TYPE_C) /\ mexists[1] = 0) => RejectedAs("NOT_FOUND")
      ]_vars

\* A Type C request was just rejected as NOT_FOUND while the list holds
\* requests of other numbers.
C8_Witness ==
    /\ mpc[1] = "m_read" /\ mkind[1] = TYPE_C /\ mresult[1] = "NOT_FOUND"
    /\ Len(List) >= 2

\* C9: whenever no writer is inside its section, every Type C entry of the
\* list has a Type A entry of the same number in the list.
C9_CancelHasTarget ==
    (~MainInside(1) /\ ~DispInside)
    => \A i \in Entries(TYPE_C) :
           \E j \in Entries(TYPE_A) : heap[List[j]].number = heap[List[i]].number

\* C10: the thread list never holds two handles of one type, and whenever
\* alarm_thread is idle every type that has a Type B entry and a Type A
\* entry in the list has exactly one handle.
C10_OneHandle ==
    /\ \A t \in Types : Cardinality(Handles(t)) <= 1
    /\ DispIdle
       => \A t \in Types :
              (/\ \E i \in Entries(TYPE_B) : heap[List[i]].type = t
               /\ \E i \in Entries(TYPE_A) : heap[List[i]].type = t)
              => Cardinality(Handles(t)) = 1

\* alarm_thread ends a scan: insert_flag = 0, back to the wait.
ScanEnds == dpc = "d_done" /\ dpc' = "d_wait"

\* C17: when alarm_thread ends a scan and goes back to waiting on
\* insert_flag, no entry of the list is still new.
C17_NothingNewWhenIdle ==
    [][ScanEnds => \A n \in Linked' : heap'[n].is_new = 0]_vars

\* alarm_thread creates a display thread and inserts its handle.
CreatesHandle == dpc = "d_loop" /\ Len(thread_list') = Len(thread_list) + 1

\* C19: alarm_thread creates a display thread for a new Type B request of
\* type t only if the thread list holds no handle of type t and the list
\* holds a Type A request of type t at that moment.
C19_CreateOnlyIfNeeded ==
    [][CreatesHandle
       => LET t == heap[dnext].type
          IN  /\ Handles(t) = {}
              /\ \E i \in Entries(TYPE_A) : heap[List[i]].type = t]_vars

\* The list without the nodes in gone, in the list's order.
ListWithout(gone) == SelectSeq(List, LAMBDA n : n \notin gone)

\* What a request says, its place in the list aside.
Content(n) == [heap[n] EXCEPT !.link = NULL]

\* The step leaves the requests that stay in the list as they were.
OthersUnchanged == \A n \in Linked' : Content(n)' = Content(n)

\* The first node of the list that is a request of kind req with number num
\* (as a set: empty when there is none).
FirstOf(req, num) ==
    LET m == {i \in Entries(req) : heap[List[i]].number = num}
    IN  IF m = {} THEN {} ELSE {List[MinOf(m)]}

\* The first Type B request of the type (as a set).
FirstWatch(type) ==
    LET m == {i \in Entries(TYPE_B) : heap[List[i]].type = type}
    IN  IF m = {} THEN {} ELSE {List[MinOf(m)]}

\* C18: alarm_thread processes a Type C request of the list whose Type A
\* request exists. In its writer section it first removes that Type A request
\* and the Type C request, so that no Type A and no Type C request of the
\* number remains, and then, when no Type A request of the removed one's type
\* is left, removes the handle and the Type B request of that type; every
\* other request and handle stays as it was.
C18_CancelRemovesTarget ==
    [][/\ (/\ dpc = "d_cancel1" /\ dpc' = "d_cancel2"
           /\ dnext \in Linked
           /\ FirstOf(TYPE_A, heap[dnext].number) # {})
          => LET n == heap[dnext].number
             IN  /\ List' = ListWithout(FirstOf(TYPE_A, n) \cup {dnext})
                 /\ OthersUnchanged
                 /\ thread_list' = thread_list
                 /\ \A x \in Linked' : heap'[x].number = n
                        => heap'[x].request_type \notin {TYPE_A, TYPE_C}
                 /\ dval' = heap[CHOOSE x \in FirstOf(TYPE_A, n) : TRUE].type
       /\ (dpc = "d_cancel2" /\ dpc' = "d_wr_dec" /\ dval # 0)
          => IF \E i \in Entries(TYPE_A) : heap[List[i]].type = dval
             THEN List' = List /\ OthersUnchanged /\ thread_list' = thread_list
             ELSE /\ List' = ListWithout(FirstWatch(dval))
                  /\ OthersUnchanged
                  /\ \A x \in Linked' :
                         ~(heap'[x].request_type = TYPE_B /\ heap'[x].type = dval)
                  /\ Handles(dval)' = {}
                  /\ thread_list' = SelectSeq(thread_list, LAMBDA h : h.type # dval)
       /\ (dpc \in {"d_cancel1", "d_cancel2"}) => writing = 1 /\ rw_sem = 0
      ]_vars

\* A handle in the thread list whose type has no Type A request in the list.
OrphanHandle ==
    \E i \in 1..Len(thread_list) :
        ~\E n \in Linked : /\ heap[n].request_type = TYPE_A
                           /\ heap[n].type = thread_list[i].type

\* C11: a handle whose type has no Type A request left in the list, after a
\* cancel or a replacement that changed the type, does not stay in the
\* thread list for ever while the process lives: alarm_thread removes it.
C11_NoOrphanSurvives == OrphanHandle ~> (~OrphanHandle \/ crashed)

\* The user typed a third command.
Third == nsub[1] > 2 \/ (nsub[1] = 2 /\ mpc[1] # "m_read")

\* The Type B request of the script is linked in the list.
WatchLinked == Entries(TYPE_B) # {}

\* C12: after "1 MessageType(1, 1) ..." and an accepted "Create_Thread:
\* MessageType(1)", with no further command and the process alive, a handle
\* of type 1 is eventually in the thread list.
C12_HandleEventuallyCreated == WatchLinked ~> (Handles(1) # {} \/ Third \/ crashed)

\* C13: after "1 MessageType(1, 1) ..." and "Create_Thread: MessageType(1)",
\* with no further command, request number 1 is never displayed a second
\* time.
C13_DisplayedOnce == Third \/ shown[1] <= 1

\* The "Cancel: Message(1)" of the script was accepted: it is linked and the
\* main thread is back at its prompt.
CancelAccepted == nsub[1] = 3 /\ mkind[1] = TYPE_C /\ mresult[1] = "ACCEPTED"

\* C14: once "Cancel: Message(1)" was accepted before request number 1 was
\* ever displayed, request number 1 is never displayed.
C14_NoDisplayAfterCancel ==
    [][(CancelAccepted /\ shown[1] = 0) => shown'[1] = 0]_vars

\* C16: a thread that holds rw_sem, from its sem_wait to its sem_post, can
\* always take its next step, whatever the other threads do or fail to do:
\* it waits for no time, flag or signal there.
C16_NoWaitInsideWriter ==
    ~crashed =>
        /\ MainHolds(1) => ENABLED Main(1)
        /\ DispHolds => ENABLED Dispatcher

\* The main thread is about to raise insert_flag inside its writer section
\* while alarm_thread has not yet seen the flag of the request before.
C16_Witness == mpc[1] = "m_flag" /\ insert_flag = 1 /\ dpc = "d_wait" /\ ~crashed

\* The display thread w ends in this step.
Retires(w) == wpc[w] # "none" /\ wpc'[w] = "none"

MainRaised == mpc[1] \in {"m_w_rc", "m_w_wr", "m_sem", "m_wr_inc", "m_find", "m_link",
                          "m_flag", "m_wr_dec", "m_post", "m_unr_ld", "m_unr_st"}

\* C15: a writer that has raised ready eventually gets the list, finishes
\* and lowers ready again: the main thread is back at its prompt.
C15_WriterProgress == MainRaised ~> (~MainRaised \/ crashed)

\* The Type B requests in the list that alarm_thread has handled already.
ProcessedWatch == {n \in Linked : heap[n].request_type = TYPE_B /\ heap[n].is_new = 0}

\* C27: whenever alarm_thread is idle, every Type B request it has handled
\* has a handle of its type in the thread list, and every handle in the
\* thread list has a Type B request of its type in the list.
C27_HandlesMatchWatches ==
    DispIdle =>
        /\ \A n \in ProcessedWatch : Handles(heap[n].type) # {}
        /\ \A i \in 1..Len(thread_list) :
              \E n \in Linked : /\ heap[n].request_type = TYPE_B
                                /\ heap[n].type = thread_list[i].type

\* The display thread w reads the fields of the entry its cursor points to
\* in this step: the entry's type and link at the top of the pass, its time,
\* message and link once it displays it.
Examines(w, c) ==
    \/ wpc[w] = "w_body" /\ c = Cursor(w) /\ (wpc'[w] # "w_body" \/ crashed')
    \/ wpc[w] = "w_wait" /\ c = walarm[w] /\ wpc'[w] # "w_wait"

\* C26: the entry a display thread examines is in the list at that moment:
\* its cursor is never null and never points to a request that a cancel or a
\* replacement took out of the list.
C26_CursorLinked ==
    [][\A w \in Workers : \A c \in Nodes \cup {NULL} :
          Examines(w, c) => c \in Linked]_vars

\* alarm_thread has raised ready and not lowered it yet.
DispRaised == dpc \in {"d_w_rc", "d_w_wr", "d_sem", "d_wr_inc", "d_cancel1",
                       "d_cancel2", "d_wr_dec", "d_post", "d_unr_ld", "d_unr_st"}

\* The writers between their ready++ and their ready--.
Raised == (IF MainRaised THEN 1 ELSE 0) + (IF DispRaised THEN 1 ELSE 0)

\* C25: read_count is the number of display threads between their
\* read_count++ and their read_count--, and ready is the number of writers
\* between their ready++ and their ready--: neither is ever negative and
\* both are 0 when no thread is in such a section.
C25_CountersExact ==
    /\ read_count = Cardinality({w \in Workers : ReaderInside(w)})
    /\ ready = Raised

\* The display thread w runs and the list holds no Type A request of its
\* type: its passes over the list find nothing to display.
NothingToDisplay(w) ==
    /\ wpc[w] \notin {"none", "w_start"}
    /\ ~\E n \in Linked : heap[n].request_type = TYPE_A /\ heap[n].type = wtype[w]

\* C22: a display thread whose passes find no Type A request of its type
\* does not go on for ever: it ends and its handle leaves the thread list,
\* unless a request of its type is admitted again or the process dies.
C22_WorkerRetiresItself ==
    \A w \in Workers :
        NothingToDisplay(w) ~>
            \/ wpc[w] = "none" /\ \A i \in 1..Len(thread_list) : thread_list[i].tid # w
            \/ \E n \in Linked : heap[n].request_type = TYPE_A /\ heap[n].type = wtype[w]
            \/ crashed

\* The Type A requests of type t in the list.
Scheduled(t) == {n \in Linked : heap[n].request_type = TYPE_A /\ heap[n].type = t}

\* The display thread w prints the message of the request it waited for.
Fires(w) == wpc[w] = "w_wait" /\ wpc'[w] # "w_wait"

\* C21: the request a display thread has waited for and prints is a Type A
\* request of the thread's type in the list, and no Type A request of that
\* type in the list has an earlier time.
C21_EarliestDisplayed ==
    [][\A w \in Workers :
          Fires(w) => /\ walarm[w] \in Scheduled(wtype[w])
                      /\ \A n \in Scheduled(wtype[w]) :
                            heap[walarm[w]].time <= heap[n].time]_vars

\* The list's entries as they are once d seconds have gone by.
Aged(d) == [i \in 1..Len(List) |-> Elapse(heap, d)[List[i]]]

\* C24: a step a display thread takes between its read_count++ and its
\* read_count-- leaves the list as it is but for the time that goes by: it
\* writes no field of any entry and links or unlinks none.
C24_ReadSectionFrame ==
    [][\A w \in Workers :
          ReaderInside(w) /\ wpc'[w] # wpc[w]
              => \E d \in 0..Seconds : Registry' = Aged(d)]_vars

\* The display thread w prints the "Replaced" notice of the request its
\* cursor points to and sets the request's expo.
Emits(w) == wpc[w] = "w_notice" /\ wpc'[w] # "w_notice"

\* C23: the "Replaced" notice is printed only for a request whose expo is
\* still 0, so at most once for one request: the first thread that prints
\* it sets expo, and no thread prints it for that request again.
C23_NoticeOnce ==
    [][\A w \in Workers : Emits(w) => heap[walarm[w]].expo = 0]_vars

\* The program after the cancel scenario's commands "Cancel: Message(1)" and
\* "Create_Thread: MessageType(1)" were admitted and processed from
\* InitWatched on, the second while alarm_thread freed request number 1
\* under main's check_dup: the list holds two Type B requests of type 1 and
\* the Type A request number 2 of type 1, the thread list two handles of
\* type 1, and neither display thread has run yet. Cells 3 and 4 are freed.
\* nsub counts the commands from here on.
InitDouble ==
    /\ heap = [n \in Nodes |->
                 CASE n = 1 -> [alarm_t EXCEPT !.link = 2, !.time = Seconds,
                                               !.number = 2, !.type = 1,
                                               !.prev_type = 1,
                                               !.request_type = TYPE_A]
                   [] n = 2 -> [alarm_t EXCEPT !.number = 2, !.type = 1,
                                               !.request_type = TYPE_B]
                   [] n = 3 -> [alarm_t EXCEPT !.link = 4, !.time = Seconds,
                                               !.number = 1, !.type = 1,
                                               !.prev_type = 1,
                                               !.request_type = TYPE_A]
                   [] n = 4 -> [alarm_t EXCEPT !.link = 1, !.number = 1,
                                               !.is_new = 1,
                                               !.request_type = TYPE_C]
                   [] OTHER -> [alarm_t EXCEPT !.link = 1, !.type = 1,
                                               !.request_type = TYPE_B]]
    /\ live = {1, 2, 5}
    /\ alarm_list = 5
    /\ thread_list = <<[type |-> 1, tid |-> 1], [type |-> 1, tid |-> 2]>>
    /\ rw_sem = 1
    /\ read_count = 0
    /\ writing = 0
    /\ ready = 0
    /\ insert_flag = 0
    /\ malarm = [s \in Subs |-> IF s = 1 THEN 5 ELSE NULL]
    /\ mkind = [s \in Subs |-> IF s = 1 THEN TYPE_B ELSE 0]
    /\ mexists = [s \in Subs |-> 0]
    /\ mnone = [s \in Subs |-> FALSE]
    /\ mdup = [s \in Subs |-> 0]
    /\ mtmp = [s \in Subs |-> 0]
    /\ mlast = [s \in Subs |-> NULL]
    /\ mnext = [s \in Subs |-> NULL]
    /\ mmode = [s \in Subs |-> "none"]
    /\ mresult = [s \in Subs |-> IF s = 1 THEN "ACCEPTED" ELSE "none"]
    /\ nsub = [s \in Subs |-> 0]
    /\ dpc = "d_wait"
    /\ dnext = NULL
    /\ dval = 0
    /\ dtmp = 0
    /\ wpc = [w \in Workers |-> "w_start"]
    /\ walarm = [w \in Workers |-> NULL]
    /\ wflag = [w \in Workers |-> 0]
    /\ wtype = [w \in Workers |-> 0]
    /\ warg = [w \in Workers |-> IF w = 1 THEN 2 ELSE 5]
    /\ wtmp = [w \in Workers |-> 0]
    /\ wcancel = [w \in Workers |-> FALSE]
    /\ wcstate = [w \in Workers |-> "enable"]
    /\ shown = [n \in Numbers |-> 0]
    /\ crashed = FALSE
    /\ mpc = [s \in Subs |-> IF s = 1 THEN "m_read" ELSE "off"]

\* The main thread of the replacement scenario: "1 MessageType(2, 2) ...",
\* which replaces request number 2 by a request of type 2.
M_ReadR(s) ==
    /\ nsub[s] < ReplaceSubmits
    /\ ReadCommand(s, TYPE_A, 2, 2, 0)

\* The replacement scenario: from InitDouble on, the main thread admitting
\* the replacement and the two display threads of type 1 starting and making
\* their passes over the list, which is never empty. alarm_thread spins on
\* insert_flag or is not scheduled all the while.
Show(w) == W_Start(w) \/ Pass(w) \/ W_Notice(w) \/ W_Fault(w)

NextR == M_ReadR(1) \/ Admit(1) \/ (\E w \in Workers : Show(w))

SpecR == InitDouble /\ [][NextR]_vars
====
